---- MODULE Spec2Model ----
(***************************************************************************)
(* Model of full_automated_bi_deprtment.py: a linear four-node graph       *)
(* (researcher -> analyst -> visualizer -> writer) run once by the main    *)
(* block, which then persists the final report to a file.                  *)
(*                                                                         *)
(* Text is modelled as a sequence of tokens: a literal of the source is    *)
(* one token, an interpolated value is the sequence of its own tokens.     *)
(* An Optional value is a sequence of length at most one: <<>> is None.    *)
(***************************************************************************)
EXTENDS Integers, Sequences, FiniteSets, TLC

\* ---------------------------------------------------------------- bounds
MaxFindings == 2
ScoreOver == 2

\* the documented magnitude of sentiment_score (Field description, prompt)
ScoreLimit == 10

\* ------------------------------------------------------------ input sets
Topics == { <<"A", "/", "B", ":", "T", "e", "s", "t">>, <<"N", " ", "S">> }
DriftTopic == <<"Y">>
LLMTopics == Topics \cup {DriftTopic}
Sentiments == { <<"positive">>, <<"negative">> }
Impacts == { <<"impact">> }
Scores == (0 - (ScoreLimit + ScoreOver)) .. (ScoreLimit + ScoreOver)
SearchTexts == { <<>>, <<"news">> }
\* FencePython and Fence stand for the markdown code-fence markers (three
\* backquotes followed by "python", and three backquotes)
FencePython == "FENCE_PYTHON"
Fence == "FENCE"
RawCodes == { <<FencePython, "\n", "CODE", "\n", Fence>>, <<"CODE">>, <<>> }

None == <<>>
Some(v) == <<v>>
Truthy(opt) == opt # <<>> /\ opt[1] # <<>>

\* ------------------------------------------------------------ file names
ChartFilename == <<"s","e","n","t","i","m","e","n","t","_","c","h","a","r","t",".","p","n","g">>
FinalReportFilename == <<"f","i","n","a","l","_","b","i","_","r","e","p","o","r","t",".","m","d">>
StaleContent == <<"stale">>
InitialFilesystems ==
  { <<>>,
    (ChartFilename :> StaleContent) @@ (FinalReportFilename :> StaleContent) }

\* ------------------------------------------------------- text formatting
Digit(d) ==
  CASE d = 0 -> "0" [] d = 1 -> "1" [] d = 2 -> "2" [] d = 3 -> "3"
    [] d = 4 -> "4" [] d = 5 -> "5" [] d = 6 -> "6" [] d = 7 -> "7"
    [] d = 8 -> "8" [] d = 9 -> "9"

RECURSIVE NatToChars(_)
NatToChars(n) ==
  IF n < 10 THEN <<Digit(n)>> ELSE NatToChars(n \div 10) \o <<Digit(n % 10)>>

IntToChars(n) == IF n < 0 THEN <<"-">> \o NatToChars(0 - n) ELSE NatToChars(n)

RECURSIVE JoinLines(_)
JoinLines(lines) ==
  IF lines = <<>> THEN <<>>
  ELSE IF Len(lines) = 1 THEN lines[1]
  ELSE lines[1] \o <<"\n">> \o JoinLines(Tail(lines))

\* ------------------------------------------------------ AnalysisReport
ReportFields ==
  {"topic", "overall_sentiment", "key_findings", "potential_impact", "sentiment_score"}

KeyFindings(n) == [i \in 1 .. n |-> <<"f">> \o IntToChars(i)]

\* what the structured-output call may hand to the schema
RawAnalyses ==
  { [topic |-> t, overall_sentiment |-> s, key_findings |-> KeyFindings(n),
     potential_impact |-> p, sentiment_score |-> c] :
       t \in LLMTopics, s \in Sentiments, n \in 0 .. MaxFindings,
       p \in Impacts, c \in Scores }
  \cup
  { [topic |-> t, overall_sentiment |-> s, key_findings |-> KeyFindings(0),
     potential_impact |-> p] : t \in {DriftTopic}, s \in Sentiments, p \in Impacts }

\* class AnalysisReport(BaseModel): every field required, sentiment_score: int
AnalysisReportValid(raw) ==
  /\ DOMAIN raw = ReportFields
  /\ raw.sentiment_score \in Int

\* --------------------------------------------------------- capabilities
SearchOutcomes == {[ok |-> FALSE]} \cup {[ok |-> TRUE, text |-> x] : x \in SearchTexts}
StructuredOutcomes == {[ok |-> FALSE]} \cup {[ok |-> TRUE, raw |-> r] : r \in RawAnalyses}
GenerationOutcomes == {[ok |-> FALSE]} \cup {[ok |-> TRUE, content |-> c] : c \in RawCodes}

\* ------------------------------------------------------------- results
\* what a node hands back to the graph runner: the state update it returns, or
\* the exception it raises; files are the files it wrote meanwhile and status
\* is the exit status carried by a SystemExit
Return(update) == [raised |-> "none", update |-> update, files |-> <<>>, status |-> 0]
Raise(kind) == [raised |-> kind, update |-> <<>>, files |-> <<>>, status |-> 1]

\* ------------------------------------------------------------ the nodes
news_researcher_node_swallow(st, search) ==
  IF "topic" \notin DOMAIN st THEN Raise("KeyError")
  ELSE IF ~search.ok THEN Return([search_results |-> <<>>])
  ELSE Return([search_results |-> search.text])

news_researcher_node(st, search) ==
  IF "topic" \notin DOMAIN st THEN Raise("KeyError")
  ELSE IF ~search.ok THEN Raise("SearchError")
  ELSE Return([search_results |-> search.text])

analyst_agent_node_no_overwrite(st, llm) ==
  IF {"search_results", "topic"} \subseteq DOMAIN st
  THEN IF ~llm.ok THEN Raise("LLMError")
       ELSE IF ~AnalysisReportValid(llm.raw) THEN Raise("ValidationError")
       ELSE Return([analysis_report |-> llm.raw])
  ELSE Raise("KeyError")

analyst_agent_node(st, llm) ==
  IF {"search_results", "topic"} \subseteq DOMAIN st
  THEN IF ~llm.ok THEN Raise("LLMError")
       ELSE IF ~AnalysisReportValid(llm.raw) THEN Raise("ValidationError")
       ELSE Return([analysis_report |-> [llm.raw EXCEPT !.topic = st.topic]])
  ELSE Raise("KeyError")

\* raw_charting_code.replace(fence, "").replace(fence, "").strip()
IsSpace(tok) == tok \in {"\n", " "}

RECURSIVE Strip(_)
Strip(s) ==
  IF s = <<>> THEN s
  ELSE IF IsSpace(Head(s)) THEN Strip(Tail(s))
  ELSE IF IsSpace(s[Len(s)]) THEN Strip(SubSeq(s, 1, Len(s) - 1))
  ELSE s

NotFence(tok) == tok \notin {FencePython, Fence}
CleanCode(raw) == Strip(SelectSeq(raw, NotFence))

\* what the two imports and exec(cleaned_charting_code) may do: save the chart
\* file or not, then finish, raise an Exception, or raise SystemExit (which is
\* no Exception) with some exit status; empty code saves nothing and the only
\* thing that can raise is an import
ExecOutcomes(code) ==
  IF code = <<>>
  THEN {[saved |-> FALSE, raised |-> r, status |-> 0] : r \in {"none", "Exception"}}
  ELSE {[saved |-> w, raised |-> r, status |-> 0] :
           w \in BOOLEAN, r \in {"none", "Exception"}}
       \cup {[saved |-> w, raised |-> "SystemExit", status |-> c] :
           w \in BOOLEAN, c \in {0, 1}}

ChartImage == <<"png">>

visualization_agent_node(st, gen, ex) ==
  IF "analysis_report" \notin DOMAIN st THEN Raise("KeyError")
  ELSE IF ~gen.ok THEN Raise("LLMError")
  ELSE LET wrote == IF ex.saved THEN ChartFilename :> ChartImage ELSE <<>>
       IN CASE ex.raised = "none" ->
                 [Return([chart_path |-> Some(ChartFilename)]) EXCEPT !.files = wrote]
            [] ex.raised = "Exception" ->
                 [Return([chart_path |-> None]) EXCEPT !.files = wrote]
            [] ex.raised = "SystemExit" ->
                 [Raise("SystemExit") EXCEPT !.files = wrote, !.status = ex.status]

\* state.get(key): None when the key is absent
Get(st, key) == IF key \in DOMAIN st THEN st[key] ELSE None

Heading == "# Business Intelligence Report: "
ImageOpen == "![Sentiment Chart]("
NoChartNotice == "*(A chart could not be generated for this report.)*"

ReportBody(r) ==
  <<"\n", "## 1. Overall Sentiment Analysis", "\n", "**Overall Sentiment:** ">>
  \o r.overall_sentiment \o <<" (Score: ">> \o IntToChars(r.sentiment_score)
  \o <<"/10)", "\n",
       "This sentiment is based on the analysis of recent news and developments.",
       "\n", "## 2. Key Findings", "\n",
       "Here are the most important points identified from the research:", "\n">>
  \o JoinLines([i \in 1 .. Len(r.key_findings) |-> <<"- ">> \o r.key_findings[i]])
  \o <<"\n", "## 3. Potential Impact", "\n">> \o r.potential_impact \o <<"\n">>

ChartSection(chart_path) ==
  <<"\n", "## 4. Sentiment Visualization", "\n", ImageOpen>> \o chart_path[1] \o <<")">>

NoChartSection == <<"\n", "\n", NoChartNotice>>

report_writer_node_keycheck(st) ==
  IF "analysis_report" \notin DOMAIN st THEN Raise("KeyError")
  ELSE LET analysis_report == st.analysis_report
           report_text == <<Heading>> \o analysis_report.topic \o ReportBody(analysis_report)
       IN Return([final_report |-> Some(report_text \o
            IF "chart_path" \in DOMAIN st
            THEN ChartSection(IF st.chart_path = None THEN Some(<<"None">>) ELSE st.chart_path)
            ELSE NoChartSection)])

report_writer_node_quoted(st) ==
  IF "analysis_report" \notin DOMAIN st THEN Raise("KeyError")
  ELSE LET analysis_report == st.analysis_report
           chart_path == Get(st, "chart_path")
           report_text == <<Heading, "'">> \o analysis_report.topic \o <<"'">>
                            \o ReportBody(analysis_report)
       IN Return([final_report |-> Some(report_text \o
            IF Truthy(chart_path) THEN ChartSection(chart_path) ELSE NoChartSection)])

report_writer_node(st) ==
  IF "analysis_report" \notin DOMAIN st THEN Raise("KeyError")
  ELSE LET analysis_report == st.analysis_report
           chart_path == Get(st, "chart_path")
           report_text == <<Heading>> \o analysis_report.topic \o ReportBody(analysis_report)
       IN Return([final_report |-> Some(report_text \o
            IF Truthy(chart_path) THEN ChartSection(chart_path) ELSE NoChartSection)])

\* ------------------------------------------------------------ the graph
EntryPoint == "researcher"

EdgeSkipAnalyst(n) ==
  CASE n = "researcher" -> "visualizer"
    [] n = "analyst" -> "visualizer"
    [] n = "visualizer" -> "writer"
    [] n = "writer" -> "END"

Edge(n) ==
  CASE n = "researcher" -> "analyst"
    [] n = "analyst" -> "visualizer"
    [] n = "visualizer" -> "writer"
    [] n = "writer" -> "END"

\* the fields of BIState the nodes produce
Fields == {"search_results", "analysis_report", "chart_path", "final_report"}

\* ---------------------------------------------------------------- state
VARIABLES
  pc,            \* position of the main block: input, invoke, complete, exited
  node,          \* the graph node to run next
  state,         \* the BIState dict: a function from the keys present
  fs,            \* the working directory: file name -> content
  error,         \* the exception that left app.invoke, and the node raising it
  exit_code,     \* Optional exit status of the process
  trace,         \* the nodes run so far, in order
  writes,        \* how often each field has been written in this run
  written,       \* the files this process wrote
  search_failed, \* whether the search capability call raised in this run
  llm_returned,  \* Optional: the record the structured-output call returned
  exec_outcome   \* Optional: what executing the chart code did

vars ==
  <<pc, node, state, fs, error, exit_code, trace, writes, written,
    search_failed, llm_returned, exec_outcome>>

NoError == [kind |-> "none", node |-> "none"]

Init ==
  /\ pc = "input"
  /\ node = "none"
  /\ state = <<>>
  /\ fs \in InitialFilesystems
  /\ error = NoError
  /\ exit_code = None
  /\ trace = <<>>
  /\ writes = [f \in Fields |-> 0]
  /\ written = {}
  /\ search_failed = FALSE
  /\ llm_returned = None
  /\ exec_outcome = None

\* topic = input(...); initial_input = {"topic": topic}; app.invoke starts
Input ==
  /\ pc = "input"
  /\ \E topic \in Topics : state' = [topic |-> topic]
  /\ pc' = "invoke"
  /\ node' = EntryPoint
  /\ UNCHANGED <<fs, error, exit_code, trace, writes, written, search_failed,
                 llm_returned, exec_outcome>>

\* the graph runner runs node n: its update is merged into the state and the
\* edge is followed, or its exception leaves app.invoke and, the main block
\* having no handler, ends the process
RunNode(n, res) ==
  /\ trace' = Append(trace, n)
  /\ fs' = res.files @@ fs
  /\ written' = written \cup DOMAIN res.files
  /\ IF res.raised = "none"
     THEN /\ state' = res.update @@ state
          /\ writes' = [f \in Fields |->
                          writes[f] + (IF f \in DOMAIN res.update THEN 1 ELSE 0)]
          /\ node' = Edge(n)
          /\ UNCHANGED <<pc, error, exit_code>>
     ELSE /\ error' = [kind |-> res.raised, node |-> n]
          /\ pc' = "exited"
          /\ exit_code' = Some(res.status)
          /\ UNCHANGED <<state, writes, node>>

Researcher ==
  /\ pc = "invoke" /\ node = "researcher"
  /\ \E search \in SearchOutcomes :
       /\ RunNode("researcher", news_researcher_node(state, search))
       /\ search_failed' = ~search.ok
  /\ UNCHANGED <<llm_returned, exec_outcome>>

Analyst ==
  /\ pc = "invoke" /\ node = "analyst"
  /\ \E llm \in StructuredOutcomes :
       /\ RunNode("analyst", analyst_agent_node(state, llm))
       /\ llm_returned' = IF llm.ok THEN Some(llm.raw) ELSE None
  /\ UNCHANGED <<search_failed, exec_outcome>>

Visualizer ==
  /\ pc = "invoke" /\ node = "visualizer"
  /\ \E gen \in GenerationOutcomes :
       IF gen.ok /\ "analysis_report" \in DOMAIN state
       THEN \E ex \in ExecOutcomes(CleanCode(gen.content)) :
              /\ RunNode("visualizer", visualization_agent_node(state, gen, ex))
              /\ exec_outcome' = Some(ex)
       ELSE /\ RunNode("visualizer", visualization_agent_node(state, gen, [saved |-> FALSE]))
            /\ UNCHANGED exec_outcome
  /\ UNCHANGED <<search_failed, llm_returned>>

Writer ==
  /\ pc = "invoke" /\ node = "writer"
  /\ RunNode("writer", report_writer_node(state))
  /\ UNCHANGED <<search_failed, llm_returned, exec_outcome>>

\* the END node: app.invoke returns the final state
Finish ==
  /\ pc = "invoke" /\ node = "END"
  /\ pc' = "complete"
  /\ UNCHANGED <<node, state, fs, error, exit_code, trace, writes, written,
                 search_failed, llm_returned, exec_outcome>>

\* final_report_md = final_state.get("final_report"); written to the file when
\* truthy; the process then ends normally
Persist ==
  /\ pc = "complete"
  /\ LET final_report_md == Get(state, "final_report")
     IN IF Truthy(final_report_md)
        THEN /\ fs' = (FinalReportFilename :> final_report_md[1]) @@ fs
             /\ written' = written \cup {FinalReportFilename}
        ELSE UNCHANGED <<fs, written>>
  /\ pc' = "exited"
  /\ exit_code' = Some(0)
  /\ UNCHANGED <<node, state, error, trace, writes, search_failed, llm_returned,
                 exec_outcome>>

Next == Input \/ Researcher \/ Analyst \/ Visualizer \/ Writer \/ Finish \/ Persist

Spec == Init /\ [][Next]_vars

\* ------------------------------------------------- vocabulary of the claims
Ran(n) == \E i \in 1 .. Len(trace) : trace[i] = n
Contains(text, tok) == \E i \in 1 .. Len(text) : text[i] = tok
\* the order the claims state
Order == <<"researcher", "analyst", "visualizer", "writer">>
IsPrefix(s, t) == Len(s) <= Len(t) /\ SubSeq(t, 1, Len(s)) = s

\* the text before the first line break
FirstLine(text) ==
  IF Contains(text, "\n")
  THEN SubSeq(text, 1, (CHOOSE i \in 1 .. Len(text) :
                          text[i] = "\n" /\ \A j \in 1 .. (i - 1) : text[j] # "\n") - 1)
  ELSE text

\* the exception kinds that are subclasses of Exception
ErrorKinds == {"SearchError", "LLMError", "ValidationError", "KeyError", "Exception"}

IllegalChars == {"/", "\\", "*", "?", ":", "\"", "<", ">", "|"}
Digits == {"0", "1", "2", "3", "4", "5", "6", "7", "8", "9"}

\* a YYYY-MM-DD segment somewhere in the name
HasDateSegment(name) ==
  \E i \in 1 .. (Len(name) - 9) :
    /\ \A k \in {0, 1, 2, 3, 5, 6, 8, 9} : name[i + k] \in Digits
    /\ name[i + 4] = "-"
    /\ name[i + 7] = "-"

ScoreInRange(c) == (0 - ScoreLimit) <= c /\ c <= ScoreLimit

\* ------------------------------------------------------------------ claims

\* C1: once the Analyst step has completed, the topic of the AnalysisReport in
\* the run state equals the run's input topic, whatever topic the inference
\* capability returned.
C1_ReportTopicIsInputTopic ==
  "analysis_report" \in DOMAIN state => state.analysis_report.topic = state.topic

C1_Witness ==
  /\ "analysis_report" \in DOMAIN state
  /\ llm_returned # None
  /\ llm_returned[1].topic # state.topic

\* C2: an AnalysisReport whose sentiment_score lies outside [-10, 10] is
\* rejected by the Analyst and never reaches the Writer: whenever the Writer
\* has run, the score in the run state is within the range.
C2_ScoreInRangeAtWriter ==
  Ran("writer") => ScoreInRange(state.analysis_report.sentiment_score)

\* C3: an error raised inside the Visualizer, while requesting the chart code
\* or while executing it, never leaves the Visualizer, and the Writer runs
\* after it.
C3_VisualizerAbsorbsErrors ==
  /\ ~(error.node = "visualizer" /\ error.kind \in ErrorKinds)
  /\ (pc = "exited" /\ Ran("visualizer") /\ error.kind # "SystemExit") => Ran("writer")

\* C4: when the Researcher, Analyst or Writer raises, the process still ends
\* with a success exit status.
C4_StepFailureExitsZero ==
  (pc = "exited" /\ error.node \in {"researcher", "analyst", "writer"})
    => exit_code = Some(0)

\* C5: when the search call fails, search_results is never set, no later step
\* runs and no report file is written in that run.
C5_SearchFailureSurfaces ==
  search_failed =>
    /\ "search_results" \notin DOMAIN state
    /\ trace = <<"researcher">>
    /\ error = [kind |-> "SearchError", node |-> "researcher"]
    /\ pc = "exited"
    /\ FinalReportFilename \notin written

C5_Witness == search_failed /\ pc = "exited"

\* C6: a final report holds exactly one of the image reference (to the chart
\* path, when the state holds one) and the no-chart notice (when the chart
\* path is absent or None); after a failed chart execution it holds the notice.
C6_ChartOrNotice ==
  "final_report" \in DOMAIN state =>
    LET text == state.final_report[1]
        image == Contains(text, ImageOpen)
        notice == Contains(text, NoChartNotice)
        chart_path == Get(state, "chart_path")
    IN /\ image # notice
       /\ image <=> Truthy(chart_path)
       /\ image => \E i \in 1 .. Len(text) :
                     /\ text[i] = ImageOpen
                     /\ SubSeq(text, i + 1, Len(text)) = chart_path[1] \o <<")">>
       /\ (exec_outcome # None /\ exec_outcome[1].raised = "Exception")
            => (notice /\ ~image)

C6_Witness ==
  /\ "final_report" \in DOMAIN state
  /\ exec_outcome # None
  /\ exec_outcome[1].raised = "Exception"

\* C7: the first line of the final report is the report heading followed by
\* exactly the input topic, whatever topic the inference capability returned.
C7_TitleNamesTopic ==
  "final_report" \in DOMAIN state =>
    FirstLine(state.final_report[1]) = <<Heading>> \o state.topic

C7_Witness ==
  /\ "final_report" \in DOMAIN state
  /\ llm_returned # None
  /\ llm_returned[1].topic # state.topic

\* C8: the name of the file the report is persisted to has none of the
\* characters / \ * ? : " < > | and no space, and includes a YYYY-MM-DD date
\* segment.
C8_FileNameSafeAndDated ==
  \A name \in written \ {ChartFilename} :
    /\ \A i \in 1 .. Len(name) : name[i] \notin IllegalChars \cup {" "}
    /\ HasDateSegment(name)

\* C9: the steps run in the order Researcher, Analyst, Visualizer, Writer,
\* each at most once; each run-state field is written at most once; no step
\* reads a field that no earlier step has written.
C9_StrictOrderWriteOnce ==
  /\ IsPrefix(trace, Order)
  /\ \A f \in Fields : writes[f] <= 1
  /\ \A f \in Fields : f \in DOMAIN state <=> writes[f] = 1
  /\ error.kind # "KeyError"

C9_Witness == trace = Order /\ pc = "complete"

\* C10: chart_path names sentiment_chart.png only when the executed chart code
\* wrote that file during this run.
C10_ChartPathOnlyForWrittenFile ==
  Get(state, "chart_path") = Some(ChartFilename) => ChartFilename \in written

====
